---- MODULE Spec2Model ----
(***************************************************************************)
(* Enrollment / recognition state of faceit (src/face-recognition.js):     *)
(* the FaceRecognizer's enrolled map, its face matcher and the value it    *)
(* persists under the localStorage key 'enrolledFaces'; the enrollment     *)
(* flows of the page (src/app.js, src/upload-manager.js); the camera       *)
(* (src/camera-manager.js) and the frame loop of the page (src/app.js),    *)
(* whose asynchronous methods are cut at their awaits.                     *)
(*                                                                         *)
(* Numbers are in tenths: a distance of 0.6 is 6.  A descriptor is a       *)
(* sequence of coordinates; the detector's descriptors have one fixed      *)
(* length (128 in the program, 1 here), so the Euclidean distance of two   *)
(* of them is the absolute difference of their coordinates.  An optional   *)
(* JavaScript value (null / undefined or a value) is a sequence of length  *)
(* 0 or 1.  The enrolledAt timestamp of a stored record is not modelled:   *)
(* nothing reads it.                                                       *)
(***************************************************************************)
EXTENDS Integers, Sequences, FiniteSets, TLC

\* ------------------------------------------------------------------ bounds
\* Coordinates of a descriptor are 0, 3, .., 3 * MaxCoord (tenths).
MaxCoord == 2
\* Longest list of detections handed to recognizeFaces.
MaxDetections == 2
\* localStorage.setItem calls that throw (quota exceeded) in one run.
MaxWriteFailures == 1
\* Cameras that enumerateDevices can list.
MaxDevices == 3
\* startCamera and switchCamera calls in flight at the same time.
MaxCalls == 2
\* Media streams that getUserMedia hands out in one run.
MaxStreams == 3
\* requestAnimationFrame calls in one run.
MaxFrames == 3
\* processFrame invocations waiting for detectFaces at the same time.
MaxInvocations == 2

\* --------------------------------------------------------------- constants
\* new faceapi.FaceMatcher(labeledDescriptors, 0.6)
MatcherThreshold == 6
\* distance: 1.0 of the result for a detection without a descriptor
UnknownDistance == 10

None == <<>>
Some(x) == <<x>>

\* Labels a caller can pass ("7" is an integer-like property key).
Labels == {"Alice", "7"}
LabelInputs == Labels \cup {""}

Coords == {3 * k : k \in 0..MaxCoord}
\* Descriptors the detector produces (full length).
FaceDescriptors == {<<c>> : c \in Coords}
\* What a caller can pass as faceDescriptor: null/undefined, an empty
\* typed array, or a descriptor.
DescriptorInputs == {None} \cup {Some(d) : d \in FaceDescriptors \cup {<<>>}}
\* A detection carries a descriptor or none.
Detections == {[descriptor |-> None]} \cup {[descriptor |-> Some(d)] : d \in FaceDescriptors}
DetectionLists == UNION {[1..n -> Detections] : n \in 0..MaxDetections}
\* Values of the confidence slider (tenths).
Thresholds == {MatcherThreshold - 3, MatcherThreshold, MatcherThreshold + 3}

VARIABLES
    enrolledFaces,   \* this.enrolledFaces: the Map, as its entries in insertion order
    faceMatcher,     \* this.faceMatcher: None (null) or Some(matcher)
    localStorage,    \* the item under 'enrolledFaces': None or Some(JSON text)
    ret,             \* the last call made on the recognizer and its outcome
    netEnrolled,     \* history: labels whose last operation was a successful enroll
    startedEmpty,    \* history: this recognizer was constructed with an empty store
    writeFailures,   \* history: number of setItem calls that threw
    flow,            \* the last enrollment flow of a session and its outcome
    stream,          \* CameraManager.stream: NoStream (null) or a stream
    isActive,        \* CameraManager.isActive
    currentDeviceId, \* CameraManager.currentDeviceId: NoDevice (null) or a device id
    availableDevices,\* CameraManager.availableDevices
    calls,           \* the startCamera and switchCamera calls waiting at an await
    liveStreams,     \* the streams handed out whose tracks have not been stopped
    acquired,        \* history: number of streams handed out
    camRet,          \* the last step of a CameraManager call and its outcome
    switched,        \* history: devices started by consecutive switches
    isProcessing,    \* FacialRecognitionApp.isProcessing
    animationId,     \* FacialRecognitionApp.animationId: NoFrame (null) or a request id
    currentDetections, \* FacialRecognitionApp.currentDetections
    scheduled,       \* the requestAnimationFrame callbacks that have not run yet
    requested,       \* history: number of requestAnimationFrame calls
    detecting,       \* number of processFrame invocations waiting for detectFaces
    video,           \* videoElement: srcObject, paused, a loadedmetadata event to
                     \* come (loading), and onloadedmetadata
    overlay,         \* the overlay canvas: "clear" or "drawn"
    hidden,          \* document.hidden
    stopped,         \* history: stopCamera has completed and startCamera was not
                     \* called since
    wroteSinceStop,  \* history: a processFrame wrote its results since then
    uploadEnrolledFaces, \* enrolledFaces of the UploadManager's own FaceRecognizer
    uploadFaceMatcher    \* faceMatcher of the UploadManager's own FaceRecognizer

recognizer == <<enrolledFaces, faceMatcher, localStorage, ret, netEnrolled, startedEmpty,
                writeFailures>>
session == <<flow>>
camera == <<stream, isActive, currentDeviceId, availableDevices, calls, liveStreams,
            acquired, camRet, switched>>
frames == <<isProcessing, animationId, currentDetections, scheduled, requested, detecting,
            video, overlay, hidden, stopped, wroteSinceStop>>
upload == <<uploadEnrolledFaces, uploadFaceMatcher>>
vars == <<recognizer, session, camera, frames, upload>>

\* ------------------------------------------------------------ Map helpers
\* Map.prototype.has
MapHas(m, label) == \E i \in 1..Len(m) : m[i].label = label

\* A set that appends without looking for the key (an array push).
MapSetAppends(m, label, descriptor) ==
    Append(m, [label |-> label, descriptor |-> descriptor])

\* A set that leaves the value of an existing key alone.
MapSetKeepsOld(m, label, descriptor) ==
    IF MapHas(m, label) THEN m
    ELSE Append(m, [label |-> label, descriptor |-> descriptor])

\* Map.prototype.set: an existing key keeps its position, a new key is appended.
MapSet(m, label, descriptor) ==
    IF MapHas(m, label)
    THEN [i \in 1..Len(m) |->
            IF m[i].label = label
            THEN [label |-> label, descriptor |-> descriptor]
            ELSE m[i]]
    ELSE Append(m, [label |-> label, descriptor |-> descriptor])

\* Map.prototype.delete
MapDelete(m, label) == SelectSeq(m, LAMBDA e : e.label # label)

\* Array.from(this.enrolledFaces.keys())
getEnrolledFaces == [i \in 1..Len(enrolledFaces) |-> enrolledFaces[i].label]

\* this.enrolledFaces.size
getEnrollmentCount == Len(enrolledFaces)

\* ------------------------------------------------------------ conversions
\* Array.from(faceDescriptor): the typed array's numbers as a plain array.
ArrayFrom(d) == [i \in 1..Len(d) |-> d[i]]

\* new Float32Array(faceData.descriptor): the numbers came from a
\* Float32Array, so rounding to single precision gives them back.
ToFloat32Array(d) == [i \in 1..Len(d) |-> d[i]]

\* Integer-like property keys: an object enumerates them first (ascending),
\* then the other keys in creation order.  Labels holds one such key.
IsArrayIndexKey(label) == label \in {"7"}

\* Object.fromEntries(this.enrolledFaces) followed by JSON.stringify: the
\* text lists the object's keys in property enumeration order.
JSONStringifyEntries(m) ==
    SelectSeq(m, LAMBDA e : IsArrayIndexKey(e.label))
        \o SelectSeq(m, LAMBDA e : ~IsArrayIndexKey(e.label))

\* JSON.parse, Object.entries and new Map(...): the parsed object enumerates
\* its keys in property order again; each value is the stored record.
MapFromJSON(text) ==
    SelectSeq(text, LAMBDA e : IsArrayIndexKey(e.label))
        \o SelectSeq(text, LAMBDA e : ~IsArrayIndexKey(e.label))

\* ---------------------------------------------------------------- matcher
\* An update that builds a matcher only when there is none yet.
UpdateFaceMatcherLazy(m) ==
    IF Len(m) = 0 THEN None
    ELSE IF faceMatcher # None THEN faceMatcher
    ELSE Some([labeledDescriptors |->
                  [i \in 1..Len(m) |->
                      [label |-> m[i].label, descriptor |-> m[i].descriptor]],
               distanceThreshold |-> MatcherThreshold])

\* updateFaceMatcher: null for an empty map, otherwise a FaceMatcher over
\* one LabeledFaceDescriptors per entry, in map order, with threshold 0.6.
UpdateFaceMatcher(m) ==
    IF Len(m) = 0
    THEN None
    ELSE Some([labeledDescriptors |->
                  [i \in 1..Len(m) |->
                      [label |-> m[i].label,
                       descriptor |-> ToFloat32Array(m[i].descriptor)]],
               distanceThreshold |-> MatcherThreshold])

\* saveEnrolledFaces: writes the whole map; a throwing setItem is caught and
\* logged, and the item keeps its previous value.
SaveEnrolledFaces(m, setItemThrows) ==
    IF setItemThrows
    THEN localStorage
    ELSE Some([kind |-> "object", entries |-> JSONStringifyEntries(m)])

\* The texts the item can hold.  The recognizer writes kind "object": a
\* mapping from label to a record with a descriptor.  Anything else was
\* written by something other than saveEnrolledFaces:
\*   "unparseable"   text that JSON.parse rejects, such as  {"Alice":
\*   "null"          the text  null
\*   "number"        the text of a number, such as  42
\*   "noDescriptor"  a mapping whose values are records without a
\*                   descriptor, such as  {"Alice":{}}
TextKinds == {"object", "unparseable", "null", "number", "noDescriptor"}

\* loadEnrolledFaces on a new recognizer (enrolledFaces = new Map(),
\* faceMatcher = null).  Nothing happens when no item is saved.  JSON.parse
\* throws on unparseable text and Object.entries throws on null: the catch
\* installs a new empty Map.  Object.entries of a number is empty.  Any
\* other object becomes the map as it is, whatever its values are; a record
\* without a descriptor is kept, and everything that reads its descriptor
\* does so through new Float32Array(undefined), the empty array.
LoadedFaces(item) ==
    IF item = None THEN <<>>
    ELSE IF item[1].kind \in {"unparseable", "null", "number"} THEN <<>>
    ELSE MapFromJSON(item[1].entries)

\* The matcher after loadEnrolledFaces: updateFaceMatcher runs on the parsed
\* map; on the other paths the constructor's null stays.
LoadedMatcher(item) == IF item = None THEN None ELSE UpdateFaceMatcher(LoadedFaces(item))

\* ------------------------------------------------------------ recognition
\* faceapi.euclideanDistance(a, b), which FaceMatcher calls for every
\* enrolled descriptor: it throws when the lengths differ.
EuclideanDistanceThrows(a, b) == Len(a) # Len(b)
EuclideanDistance(a, b) ==
    IF Len(a) = 0 THEN 0
    ELSE IF a[1] >= b[1] THEN a[1] - b[1] ELSE b[1] - a[1]

\* FaceMatcher.matchDescriptor: the distances to the labeled descriptors,
\* reduced left to right with (best, curr) => best.distance < curr.distance
\* ? best : curr.
RECURSIVE ReduceBest(_, _, _)
ReduceBest(best, matches, i) ==
    IF i > Len(matches) THEN best
    ELSE ReduceBest(IF best.distance < matches[i].distance THEN best ELSE matches[i],
                    matches, i + 1)

MatchDescriptor(matcher, queryDescriptor) ==
    LET matches == [i \in 1..Len(matcher.labeledDescriptors) |->
                       [label |-> matcher.labeledDescriptors[i].label,
                        distance |-> EuclideanDistance(
                            matcher.labeledDescriptors[i].descriptor, queryDescriptor)]]
    IN ReduceBest(matches[1], matches, 2)

\* A findBestMatch that takes the caller's threshold with the comparison
\* turned around.
FindBestMatchInverted(matcher, queryDescriptor, confidenceThreshold) ==
    LET bestMatch == MatchDescriptor(matcher, queryDescriptor)
    IN IF bestMatch.distance >= confidenceThreshold
       THEN bestMatch
       ELSE [label |-> "unknown", distance |-> bestMatch.distance]

\* this.faceMatcher.findBestMatch(detection.descriptor, confidenceThreshold):
\* the matcher compares with the threshold it was constructed with; the
\* second argument is not a parameter of findBestMatch and is dropped.
FindBestMatch(matcher, queryDescriptor, confidenceThreshold) ==
    LET bestMatch == MatchDescriptor(matcher, queryDescriptor)
    IN IF bestMatch.distance < matcher.distanceThreshold
       THEN bestMatch
       ELSE [label |-> "unknown", distance |-> bestMatch.distance]

FindBestMatchThrows(matcher, queryDescriptor) ==
    \E i \in 1..Len(matcher.labeledDescriptors) :
        EuclideanDistanceThrows(matcher.labeledDescriptors[i].descriptor, queryDescriptor)

\* A result whose no-descriptor branch reports distance 0.
RecognizeOneZeroDistance(matcher, detection, confidenceThreshold) ==
    IF detection.descriptor # None
    THEN LET bestMatch == FindBestMatch(matcher, detection.descriptor[1], confidenceThreshold)
         IN [label |-> bestMatch.label,
             distance |-> bestMatch.distance,
             isMatch |-> bestMatch.label # "unknown"]
    ELSE [label |-> "unknown", distance |-> 0, isMatch |-> FALSE]

\* The result recognizeFaces pushes for one detection.
RecognizeOne(matcher, detection, confidenceThreshold) ==
    IF detection.descriptor # None
    THEN LET bestMatch == FindBestMatch(matcher, detection.descriptor[1], confidenceThreshold)
         IN [label |-> bestMatch.label,
             distance |-> bestMatch.distance,
             isMatch |-> bestMatch.label # "unknown"]
    ELSE [label |-> "unknown", distance |-> UnknownDistance, isMatch |-> FALSE]

\* A recognizeFaces that pushes nothing for a detection without descriptor.
RecognizeFacesSkips(fm, detections, confidenceThreshold) ==
    IF fm = None \/ Len(detections) = 0
    THEN [threw |-> FALSE, results |-> <<>>, matcherCalls |-> <<>>]
    ELSE LET matcher == fm[1]
             withDescriptor == SelectSeq(detections, LAMBDA d : d.descriptor # None)
             Called == SelectSeq([i \in 1..Len(detections) |-> i],
                                 LAMBDA i : detections[i].descriptor # None)
         IN IF \E i \in 1..Len(withDescriptor) :
                   \E k \in 1..Len(matcher.labeledDescriptors) :
                       Len(matcher.labeledDescriptors[k].descriptor)
                           # Len(withDescriptor[i].descriptor[1])
            THEN [threw |-> TRUE, results |-> <<>>, matcherCalls |-> Called]
            ELSE [threw |-> FALSE,
                  results |-> [i \in 1..Len(withDescriptor) |->
                                  RecognizeOne(matcher, withDescriptor[i], confidenceThreshold)],
                  matcherCalls |-> Called]

\* A recognizeFaces without the early return on a null matcher: every
\* detection gets the 'unknown' result.
RecognizeFacesAnswersWhenNull(fm, detections, confidenceThreshold) ==
    IF fm = None
    THEN [threw |-> FALSE,
          results |-> [i \in 1..Len(detections) |->
                          [label |-> "unknown", distance |-> UnknownDistance,
                           isMatch |-> FALSE]],
          matcherCalls |-> <<>>]
    ELSE IF \E i \in 1..Len(detections) :
                /\ detections[i].descriptor # None
                /\ \E k \in 1..Len(fm[1].labeledDescriptors) :
                       Len(fm[1].labeledDescriptors[k].descriptor)
                           # Len(detections[i].descriptor[1])
    THEN [threw |-> TRUE, results |-> <<>>, matcherCalls |-> <<>>]
    ELSE [threw |-> FALSE,
          results |-> [i \in 1..Len(detections) |->
                          RecognizeOne(fm[1], detections[i], confidenceThreshold)],
          matcherCalls |-> SelectSeq([i \in 1..Len(detections) |-> i],
                                     LAMBDA i : detections[i].descriptor # None)]

\* recognizeFaces(detections, confidenceThreshold) against matcher `fm`:
\* whether it threw, the list it returned, and the detections (by position)
\* for which findBestMatch was called.
RecognizeFaces(fm, detections, confidenceThreshold) ==
    IF fm = None \/ Len(detections) = 0
    THEN [threw |-> FALSE, results |-> <<>>, matcherCalls |-> <<>>]
    ELSE LET matcher == fm[1]
             Throws(i) == /\ detections[i].descriptor # None
                          /\ FindBestMatchThrows(matcher, detections[i].descriptor[1])
             Reached(i) == \A j \in 1..(i - 1) : ~Throws(j)
             Called == SelectSeq([i \in 1..Len(detections) |-> i],
                                 LAMBDA i : detections[i].descriptor # None /\ Reached(i))
         IN IF \E i \in 1..Len(detections) : Throws(i)
            THEN [threw |-> TRUE, results |-> <<>>, matcherCalls |-> Called]
            ELSE [threw |-> FALSE,
                  results |-> [i \in 1..Len(detections) |->
                                  RecognizeOne(matcher, detections[i], confidenceThreshold)],
                  matcherCalls |-> Called]

\* ---------------------------------------------------------- call records
\* The record of a call: its arguments, whether it threw, the boolean it
\* returned (value), whether its label was enrolled when it was made
\* (existed), recognizeFaces' list (results), the positions of the
\* detections it called findBestMatch for (matcherCalls), and whether it
\* called updateFaceMatcher (rebuilt) and localStorage.setItem (wrote).
Call(op) ==
    [op |-> op, label |-> "", faceDescriptor |-> None, detections |-> <<>>,
     threshold |-> 0, threw |-> FALSE, value |-> FALSE, existed |-> FALSE,
     results |-> <<>>, matcherCalls |-> <<>>, rebuilt |-> FALSE, wrote |-> FALSE]

CanFail == writeFailures < MaxWriteFailures
Failures(setItemThrows) == IF setItemThrows THEN writeFailures + 1 ELSE writeFailures

\* ------------------------------------------------------------------ Init
Init ==
    /\ localStorage = None
    /\ enrolledFaces = LoadedFaces(None)
    /\ faceMatcher = LoadedMatcher(None)
    /\ ret = Call("constructor")
    /\ netEnrolled = {}
    /\ startedEmpty = TRUE
    /\ writeFailures = 0

\* new FaceRecognizer() on a page load: a new map and matcher, loaded from
\* the saved item.
Construct ==
    /\ enrolledFaces' = LoadedFaces(localStorage)
    /\ faceMatcher' = LoadedMatcher(localStorage)
    /\ ret' = Call("constructor")
    /\ netEnrolled' = {}
    /\ startedEmpty' = (LoadedFaces(localStorage) = <<>>)
    /\ UNCHANGED <<localStorage, writeFailures>>

\* enrollFace(faceDescriptor, label)
EnrollFaceRejects(faceDescriptor, label) == faceDescriptor = None \/ label = ""

EnrollFace(faceDescriptor, label, setItemThrows) ==
    IF EnrollFaceRejects(faceDescriptor, label)
    THEN /\ ~setItemThrows
         /\ ret' = [Call("enrollFace") EXCEPT !.label = label,
                        !.faceDescriptor = faceDescriptor, !.threw = TRUE,
                        !.existed = MapHas(enrolledFaces, label)]
         /\ UNCHANGED <<enrolledFaces, faceMatcher, localStorage, netEnrolled,
                        startedEmpty, writeFailures>>
    ELSE /\ setItemThrows => CanFail
         /\ enrolledFaces' = MapSet(enrolledFaces, label, ArrayFrom(faceDescriptor[1]))
         /\ faceMatcher' = UpdateFaceMatcher(enrolledFaces')
         /\ localStorage' = SaveEnrolledFaces(enrolledFaces', setItemThrows)
         /\ ret' = [Call("enrollFace") EXCEPT !.label = label,
                        !.faceDescriptor = faceDescriptor, !.value = TRUE,
                        !.existed = MapHas(enrolledFaces, label),
                        !.rebuilt = TRUE, !.wrote = TRUE]
         /\ netEnrolled' = netEnrolled \cup {label}
         /\ writeFailures' = Failures(setItemThrows)
         /\ UNCHANGED startedEmpty

\* A removeFace that rebuilds and saves outside the has() test.
RemoveFaceAlwaysSaves(label, setItemThrows) ==
    /\ setItemThrows => CanFail
    /\ enrolledFaces' = MapDelete(enrolledFaces, label)
    /\ faceMatcher' = UpdateFaceMatcher(enrolledFaces')
    /\ localStorage' = SaveEnrolledFaces(enrolledFaces', setItemThrows)
    /\ ret' = [Call("removeFace") EXCEPT !.label = label,
                   !.value = MapHas(enrolledFaces, label),
                   !.existed = MapHas(enrolledFaces, label),
                   !.rebuilt = TRUE, !.wrote = TRUE]
    /\ netEnrolled' = netEnrolled \ {label}
    /\ writeFailures' = Failures(setItemThrows)
    /\ UNCHANGED startedEmpty

\* removeFace(label)
RemoveFace(label, setItemThrows) ==
    IF MapHas(enrolledFaces, label)
    THEN /\ setItemThrows => CanFail
         /\ enrolledFaces' = MapDelete(enrolledFaces, label)
         /\ faceMatcher' = UpdateFaceMatcher(enrolledFaces')
         /\ localStorage' = SaveEnrolledFaces(enrolledFaces', setItemThrows)
         /\ ret' = [Call("removeFace") EXCEPT !.label = label, !.value = TRUE,
                        !.existed = TRUE, !.rebuilt = TRUE, !.wrote = TRUE]
         /\ netEnrolled' = netEnrolled \ {label}
         /\ writeFailures' = Failures(setItemThrows)
         /\ UNCHANGED startedEmpty
    ELSE /\ ~setItemThrows
         /\ ret' = [Call("removeFace") EXCEPT !.label = label]
         /\ UNCHANGED <<enrolledFaces, faceMatcher, localStorage, netEnrolled,
                        startedEmpty, writeFailures>>

\* clearAllFaces()
ClearAllFaces(setItemThrows) ==
    /\ setItemThrows => CanFail
    /\ enrolledFaces' = <<>>
    /\ faceMatcher' = None
    /\ localStorage' = SaveEnrolledFaces(enrolledFaces', setItemThrows)
    /\ ret' = [Call("clearAllFaces") EXCEPT !.wrote = TRUE]
    /\ netEnrolled' = {}
    /\ writeFailures' = Failures(setItemThrows)
    /\ UNCHANGED startedEmpty


\* A caller (processFrame, with the slider's value) runs recognizeFaces.
\* The call reads the recognizer and writes nothing, so one that follows
\* another recognizeFaces reaches no state the first could not reach from
\* the same recognizer: the model takes it after any other call.
Recognize(detections, confidenceThreshold) ==
    LET r == RecognizeFaces(faceMatcher, detections, confidenceThreshold)
    IN /\ ret.op # "recognizeFaces"
       /\ ret' = [Call("recognizeFaces") EXCEPT !.detections = detections,
                      !.threshold = confidenceThreshold, !.threw = r.threw,
                      !.results = r.results,
                      !.matcherCalls = r.matcherCalls]
       /\ UNCHANGED <<enrolledFaces, faceMatcher, localStorage, netEnrolled,
                      startedEmpty, writeFailures>>

Enroll == \E d \in DescriptorInputs, l \in LabelInputs, t \in BOOLEAN : EnrollFace(d, l, t)
Remove == \E l \in LabelInputs, t \in BOOLEAN : RemoveFace(l, t)
Clear == \E t \in BOOLEAN : ClearAllFaces(t)
Recognition == \E ds \in DetectionLists, t \in Thresholds : Recognize(ds, t)


\* ---------------------------------------------------------------- camera
\* this.stream = null, and the streams getUserMedia hands out: 1, 2, ...
NoStream == 0
\* this.currentDeviceId = null / startCamera(deviceId = null)
NoDevice == "null"
\* The cameras of the machine in the order enumerateDevices lists them; a
\* listing shows the first n of them.
Devices == [i \in 1..MaxDevices |-> CASE i = 1 -> "front" [] i = 2 -> "back"
                                      [] OTHER -> "usb"]
Listing(n) == SubSeq(Devices, 1, n)
DeviceIds == {Devices[i] : i \in 1..MaxDevices}

\* Array.prototype.findIndex(device => device.deviceId === current): the
\* zero-based position, -1 when there is none.
FindIndex(devices, current) ==
    IF \E i \in 1..Len(devices) : devices[i] = current
    THEN (CHOOSE i \in 1..Len(devices) :
              /\ devices[i] = current
              /\ \A j \in 1..(i - 1) : devices[j] # current) - 1
    ELSE -1

\* A switch that stays at the last device instead of wrapping around.
NextDeviceNoWrap(devices, current) ==
    LET currentIndex == FindIndex(devices, current)
        nextIndex == IF currentIndex + 1 > Len(devices) - 1 THEN Len(devices) - 1
                     ELSE currentIndex + 1
    IN devices[nextIndex + 1]

\* switchCamera's choice: nextIndex = (currentIndex + 1) % length.
NextDevice(devices, current) ==
    LET currentIndex == FindIndex(devices, current)
        nextIndex == (currentIndex + 1) % Len(devices)
    IN devices[nextIndex + 1]

\* The outcome of a step of a CameraManager call.
CamCall(op, event) ==
    [op |-> op, event |-> event, deviceId |-> NoDevice, from |-> NoDevice,
     n |-> 0, error |-> ""]

CameraInit ==
    /\ stream = NoStream
    /\ isActive = FALSE
    /\ currentDeviceId = NoDevice
    /\ availableDevices = <<>>
    /\ calls = <<>>
    /\ liveStreams = {}
    /\ acquired = 0
    /\ camRet = CamCall("constructor", "returned")
    /\ switched = <<>>

\* A call waiting at an await: the method (op), the promise it waits for
\* (pc), the device it asks for, and for a switch the number of cameras it
\* was given.
\* The body of stopCamera(): stop every track of this.stream and forget it.
StoppedStreams == IF stream # NoStream THEN liveStreams \ {stream} ELSE liveStreams
StoppedActive == IF stream # NoStream THEN FALSE ELSE isActive

Without(i) == SubSeq(calls, 1, i - 1) \o SubSeq(calls, i + 1, Len(calls))

\* stopCamera()
StopCamera ==
    /\ stream' = NoStream
    /\ isActive' = StoppedActive
    /\ liveStreams' = StoppedStreams
    /\ camRet' = CamCall("stopCamera", "returned")
    /\ switched' = <<>>
    /\ UNCHANGED <<currentDeviceId, availableDevices, calls, acquired>>

\* startCamera(deviceId) up to its second await: it stops the current
\* stream (await this.stopCamera()) and asks getUserMedia for a new one.
StartCamera(deviceId) ==
    /\ Len(calls) < MaxCalls
    /\ stream' = NoStream
    /\ isActive' = StoppedActive
    /\ liveStreams' = StoppedStreams
    /\ calls' = Append(calls, [op |-> "startCamera", pc |-> "getUserMedia",
                               deviceId |-> deviceId, n |-> 0])
    /\ camRet' = [CamCall("startCamera", "getUserMedia") EXCEPT !.deviceId = deviceId]
    /\ switched' = <<>>
    /\ UNCHANGED <<currentDeviceId, availableDevices, acquired>>

\* getUserMedia resolves for the i-th waiting call: the rest of startCamera
\* stores the stream, the device id and isActive.  A switch that ran with no
\* other call in flight adds its device to the consecutive switches.
GetUserMediaResolves(i) ==
    /\ i \in 1..Len(calls)
    /\ calls[i].pc = "getUserMedia"
    /\ acquired < MaxStreams
    /\ acquired' = acquired + 1
    /\ stream' = acquired'
    /\ liveStreams' = liveStreams \cup {acquired'}
    /\ currentDeviceId' = calls[i].deviceId
    /\ isActive' = TRUE
    /\ calls' = Without(i)
    /\ camRet' = [CamCall(calls[i].op, "returned") EXCEPT !.deviceId = calls[i].deviceId]
    /\ switched' = IF calls[i].op = "switchCamera" /\ Len(calls) = 1
                   THEN Append(switched, [deviceId |-> calls[i].deviceId,
                                          n |-> calls[i].n])
                   ELSE <<>>
    /\ UNCHANGED availableDevices

\* getUserMedia rejects (permission denied, device busy, ...): startCamera
\* throws from its catch block.
GetUserMediaRejects(i) ==
    /\ i \in 1..Len(calls)
    /\ calls[i].pc = "getUserMedia"
    /\ calls' = Without(i)
    /\ camRet' = [CamCall(calls[i].op, "threw") EXCEPT !.deviceId = calls[i].deviceId,
                      !.error = "Camera error"]
    /\ switched' = <<>>
    /\ UNCHANGED <<stream, isActive, currentDeviceId, availableDevices, liveStreams,
                   acquired>>

\* switchCamera() up to its first await: getAvailableDevices() waits for
\* enumerateDevices.
SwitchCamera ==
    /\ Len(calls) < MaxCalls
    /\ calls' = Append(calls, [op |-> "switchCamera", pc |-> "enumerateDevices",
                               deviceId |-> NoDevice, n |-> 0])
    /\ camRet' = CamCall("switchCamera", "enumerateDevices")
    /\ switched' = IF Len(calls) = 0 THEN switched ELSE <<>>
    /\ UNCHANGED <<stream, isActive, currentDeviceId, availableDevices, liveStreams,
                   acquired>>

\* enumerateDevices resolves with n cameras for the i-th waiting call: with
\* at most one camera switchCamera throws; otherwise it picks the next
\* device and runs startCamera(nextDevice.deviceId) up to getUserMedia.
EnumerateDevicesResolves(i, n) ==
    /\ i \in 1..Len(calls)
    /\ calls[i].pc = "enumerateDevices"
    /\ availableDevices' = Listing(n)
    /\ IF n <= 1
       THEN /\ calls' = Without(i)
            /\ camRet' = [CamCall("switchCamera", "threw") EXCEPT !.n = n,
                              !.from = currentDeviceId,
                              !.error = "No additional cameras available"]
            /\ switched' = <<>>
            /\ UNCHANGED <<stream, isActive, liveStreams>>
       ELSE LET deviceId == NextDevice(availableDevices', currentDeviceId)
            IN /\ stream' = NoStream
               /\ isActive' = StoppedActive
               /\ liveStreams' = StoppedStreams
               /\ calls' = [calls EXCEPT ![i] = [op |-> "switchCamera",
                                                 pc |-> "getUserMedia",
                                                 deviceId |-> deviceId, n |-> n]]
               /\ camRet' = [CamCall("switchCamera", "getUserMedia") EXCEPT !.n = n,
                                 !.from = currentDeviceId, !.deviceId = deviceId]
               /\ switched' = IF Len(calls) = 1 THEN switched ELSE <<>>
    /\ UNCHANGED <<currentDeviceId, acquired>>

Start == \E d \in {NoDevice} \cup DeviceIds : StartCamera(d)
Resolve == \E i \in 1..MaxCalls : GetUserMediaResolves(i)
Reject == \E i \in 1..MaxCalls : GetUserMediaRejects(i)
Enumerate == \E i \in 1..MaxCalls, n \in 0..MaxDevices : EnumerateDevicesResolves(i, n)

\* ------------------------------------------------------- frame processing
\* this.animationId = null; requestAnimationFrame returns 1, 2, ...
NoFrame == 0

\* What detectFaces finds in a frame: nothing, or one face.
FrameDetections == {<<>>, <<[descriptor |-> Some(<<0>>)]>>}

FramesInit ==
    /\ isProcessing = FALSE
    /\ animationId = NoFrame
    /\ currentDetections = <<>>
    /\ scheduled = {}
    /\ requested = 0
    /\ detecting = 0
    /\ video = [srcObject |-> NoStream, paused |-> TRUE, loading |-> FALSE,
                onloadedmetadata |-> "null"]
    /\ overlay = "clear"
    /\ hidden = FALSE
    /\ stopped = FALSE
    /\ wroteSinceStop = FALSE

\* processFrame() up to its await: it returns at once unless processing is
\* on and the video plays; otherwise it waits for detectFaces.
Detecting(processing, paused) ==
    IF processing /\ ~paused THEN detecting + 1 ELSE detecting

\* cancelAnimationFrame(this.animationId) under if (this.animationId).
Cancelled == IF animationId # NoFrame THEN scheduled \ {animationId} ELSE scheduled

\* isActiveCamera(): isActive && stream && stream.active
isActiveCamera == isActive /\ stream # NoStream /\ stream \in liveStreams

\* FacialRecognitionApp.startCamera() up to its first await.
AppStartCamera ==
    /\ StartCamera(NoDevice)
    /\ stopped' = FALSE
    /\ UNCHANGED <<isProcessing, animationId, currentDetections, scheduled, requested,
                   detecting, video, overlay, hidden, wroteSinceStop>>

\* cameraManager.startCamera() resolves: the app shows the stream in the
\* video element, which starts loading it, and waits for loadedmetadata
\* with a new onloadedmetadata handler.
AppShowsStream(i) ==
    /\ GetUserMediaResolves(i)
    /\ video' = [srcObject |-> stream', paused |-> TRUE, loading |-> TRUE,
                 onloadedmetadata |-> "waiting"]
    /\ UNCHANGED <<isProcessing, animationId, currentDetections, scheduled, requested,
                   detecting, overlay, hidden, stopped, wroteSinceStop>>

\* cameraManager.startCamera() throws: the app shows the error.
AppStartFails(i) ==
    /\ GetUserMediaRejects(i)
    /\ UNCHANGED frames

\* loadedmetadata fires: the listener resizes the canvas, which clears it;
\* onloadedmetadata plays the video and resolves its promise, and the
\* startCamera that waits for it goes on with resizeCanvas(),
\* startProcessing() and updateUI().
LoadedMetadata ==
    /\ video.loading
    /\ video.srcObject \in liveStreams
    /\ overlay' = "clear"
    /\ IF video.onloadedmetadata = "null"
       THEN /\ video' = [video EXCEPT !.loading = FALSE]
            /\ UNCHANGED <<isProcessing, detecting>>
       ELSE /\ video' = [video EXCEPT !.loading = FALSE, !.paused = FALSE,
                                      !.onloadedmetadata = "resolved"]
            /\ IF video.onloadedmetadata = "waiting" /\ ~isProcessing
               THEN /\ detecting < MaxInvocations
                    /\ isProcessing' = TRUE
                    /\ detecting' = Detecting(TRUE, FALSE)
               ELSE UNCHANGED <<isProcessing, detecting>>
    /\ UNCHANGED <<animationId, currentDetections, scheduled, requested, hidden, stopped,
                   wroteSinceStop>>
    /\ UNCHANGED camera

\* detectFaces resolves for a waiting processFrame: it stores the
\* detections, draws them (drawResults clears the canvas when there are
\* none) and, if processing is on, requests the next frame.
DetectFacesResolves(detections) ==
    /\ detecting > 0
    /\ isProcessing => requested < MaxFrames
    /\ detecting' = detecting - 1
    /\ currentDetections' = detections
    /\ overlay' = IF Len(detections) = 0 THEN "clear" ELSE "drawn"
    /\ wroteSinceStop' = (wroteSinceStop \/ stopped)
    /\ IF isProcessing
       THEN /\ requested' = requested + 1
            /\ animationId' = requested'
            /\ scheduled' = scheduled \cup {requested'}
       ELSE UNCHANGED <<requested, animationId, scheduled>>
    /\ UNCHANGED <<isProcessing, video, hidden, stopped>>
    /\ UNCHANGED camera

\* The browser runs a requested frame's callback, which calls processFrame();
\* it runs none while the page is hidden.
AnimationFrame(id) ==
    /\ id \in scheduled
    /\ ~hidden
    /\ isProcessing /\ ~video.paused => detecting < MaxInvocations
    /\ scheduled' = scheduled \ {id}
    /\ detecting' = Detecting(isProcessing, video.paused)
    /\ UNCHANGED <<isProcessing, animationId, currentDetections, requested, video, overlay,
                   hidden, stopped, wroteSinceStop>>
    /\ UNCHANGED camera

\* FacialRecognitionApp.stopCamera(): stopProcessing(), then
\* cameraManager.stopCamera(), srcObject = null and clearCanvas().
AppStopCamera ==
    /\ StopCamera
    /\ isProcessing' = FALSE
    /\ scheduled' = Cancelled
    /\ animationId' = NoFrame
    /\ video' = [video EXCEPT !.srcObject = NoStream, !.paused = TRUE, !.loading = FALSE]
    /\ overlay' = "clear"
    /\ stopped' = TRUE
    /\ wroteSinceStop' = FALSE
    /\ UNCHANGED <<currentDetections, requested, detecting, hidden>>

\* visibilitychange to hidden: pauseProcessing().
PageHidden ==
    /\ ~hidden
    /\ hidden' = TRUE
    /\ scheduled' = Cancelled
    /\ animationId' = NoFrame
    /\ UNCHANGED <<isProcessing, currentDetections, requested, detecting, video, overlay,
                   stopped, wroteSinceStop>>
    /\ UNCHANGED camera

\* visibilitychange to visible: resumeProcessing() when the camera is
\* active, which calls processFrame() if (isProcessing && !animationId).
PageVisible ==
    /\ hidden
    /\ hidden' = FALSE
    /\ IF isActiveCamera /\ isProcessing /\ animationId = NoFrame
       THEN /\ ~video.paused => detecting < MaxInvocations
            /\ detecting' = Detecting(isProcessing, video.paused)
       ELSE UNCHANGED detecting
    /\ UNCHANGED <<isProcessing, animationId, currentDetections, scheduled, requested,
                   video, overlay, stopped, wroteSinceStop>>
    /\ UNCHANGED camera

ShowStream == \E i \in 1..MaxCalls : AppShowsStream(i)
StartFails == \E i \in 1..MaxCalls : AppStartFails(i)
Detected == \E ds \in FrameDetections : DetectFacesResolves(ds)
Frame == \E id \in 1..MaxFrames : AnimationFrame(id)

\* The outcome of an enrollment flow: which flow ran, how many detections it
\* found, the detection it took (None when it took none), the trimmed name,
\* whether confirm() was shown and answered OK, the message given to
\* showError ("" for none), and whether the flow called enrollFace.
Idle ==
    [name |-> "none", count |-> 0, detection |-> None, label |-> "", asked |-> FALSE,
     confirmed |-> FALSE, error |-> "", delegated |-> FALSE]

\* The page before any enrollment flow has run, and steps that run none.
\* new UploadManager() constructs a second FaceRecognizer over the same
\* localStorage key.
UploadInit ==
    /\ uploadEnrolledFaces = LoadedFaces(localStorage)
    /\ uploadFaceMatcher = LoadedMatcher(localStorage)

InitAll == Init /\ flow = Idle /\ CameraInit /\ FramesInit /\ UploadInit
Quiet == UNCHANGED <<session, camera, frames, upload>>

\* The store and its persisted value, with localStorage writes that can throw.
Next == (Enroll \/ Remove \/ Clear \/ Construct) /\ Quiet

Spec == InitAll /\ [][Next]_vars

\* Texts under the key that the recognizer finds at construction, whoever
\* wrote them: every text it writes itself and the malformed ones.
EntriesOver(descriptors) ==
    {<<>>} \cup {<<[label |-> l, descriptor |-> d]>> : l \in Labels, d \in descriptors}
        \cup {<<[label |-> "7", descriptor |-> d1], [label |-> "Alice", descriptor |-> d2]>> :
                 d1 \in descriptors, d2 \in descriptors}
StoredTexts ==
    {[kind |-> "object", entries |-> e] : e \in EntriesOver(FaceDescriptors \cup {<<>>})}
        \cup {[kind |-> k, entries |-> <<>>] : k \in {"unparseable", "null", "number"}}
        \cup {[kind |-> "noDescriptor", entries |-> e] : e \in EntriesOver({<<>>}) \ {<<>>}}

\* The environment replaces the item: another page or script of the origin,
\* or the user through the browser's storage tools.
Tamper(text) ==
    /\ localStorage # Some(text)
    /\ localStorage' = Some(text)
    /\ UNCHANGED <<enrolledFaces, faceMatcher, ret, netEnrolled, startedEmpty, writeFailures>>

Tampering == \E text \in StoredTexts : Tamper(text)

\* Construction of a recognizer over whatever the item holds.
NextBoot == (Tampering \/ Construct) /\ Quiet

SpecBoot == InitAll /\ [][NextBoot]_vars

\* Recognition against the store, with localStorage writes that succeed.
EnrollSaved == \E d \in DescriptorInputs, l \in LabelInputs : EnrollFace(d, l, FALSE)
RemoveSaved == \E l \in LabelInputs : RemoveFace(l, FALSE)
ClearSaved == ClearAllFaces(FALSE)

NextRecognize ==
    (EnrollSaved \/ RemoveSaved \/ ClearSaved \/ Construct \/ Recognition) /\ Quiet

SpecRecognize == InitAll /\ [][NextRecognize]_vars

\* The CameraManager under calls that overlap at their awaits.
NextCamera ==
    (Start \/ StopCamera \/ SwitchCamera \/ Resolve \/ Reject \/ Enumerate)
        /\ UNCHANGED <<recognizer, session, frames, upload>>

SpecCamera == InitAll /\ [][NextCamera]_vars

\* The page: camera start and stop, visibility changes and the frame loop.
NextApp ==
    (AppStartCamera \/ ShowStream \/ StartFails \/ LoadedMetadata \/ Detected \/ Frame
        \/ AppStopCamera \/ PageHidden \/ PageVisible)
        /\ UNCHANGED <<recognizer, session, upload>>

SpecApp == InitAll /\ [][NextApp]_vars

\* ------------------------------------------------------- second recognizer
\* The methods of the UploadManager's recognizer: the code of enrollFace,
\* removeFace and clearAllFaces on that instance's map and matcher, saving
\* under the same key.  The writes succeed.
UploadEnrollFace(faceDescriptor, label) ==
    /\ uploadEnrolledFaces' = MapSet(uploadEnrolledFaces, label, ArrayFrom(faceDescriptor))
    /\ uploadFaceMatcher' = UpdateFaceMatcher(uploadEnrolledFaces')
    /\ localStorage' = SaveEnrolledFaces(uploadEnrolledFaces', FALSE)
    /\ ret' = [Call("upload.enrollFace") EXCEPT !.label = label,
                   !.faceDescriptor = Some(faceDescriptor), !.value = TRUE,
                   !.existed = MapHas(uploadEnrolledFaces, label),
                   !.rebuilt = TRUE, !.wrote = TRUE]
    /\ netEnrolled' = netEnrolled \cup {label}
    /\ UNCHANGED <<enrolledFaces, faceMatcher, startedEmpty, writeFailures>>

UploadRemoveFace(label) ==
    IF MapHas(uploadEnrolledFaces, label)
    THEN /\ uploadEnrolledFaces' = MapDelete(uploadEnrolledFaces, label)
         /\ uploadFaceMatcher' = UpdateFaceMatcher(uploadEnrolledFaces')
         /\ localStorage' = SaveEnrolledFaces(uploadEnrolledFaces', FALSE)
         /\ ret' = [Call("upload.removeFace") EXCEPT !.label = label, !.value = TRUE,
                        !.existed = TRUE, !.rebuilt = TRUE, !.wrote = TRUE]
         /\ netEnrolled' = netEnrolled \ {label}
         /\ UNCHANGED <<enrolledFaces, faceMatcher, startedEmpty, writeFailures>>
    ELSE /\ ret' = [Call("upload.removeFace") EXCEPT !.label = label]
         /\ UNCHANGED <<enrolledFaces, faceMatcher, localStorage, netEnrolled,
                        startedEmpty, writeFailures, upload>>

UploadClearAllFaces ==
    /\ uploadEnrolledFaces' = <<>>
    /\ uploadFaceMatcher' = None
    /\ localStorage' = SaveEnrolledFaces(uploadEnrolledFaces', FALSE)
    /\ ret' = [Call("upload.clearAllFaces") EXCEPT !.wrote = TRUE]
    /\ netEnrolled' = {}
    /\ UNCHANGED <<enrolledFaces, faceMatcher, startedEmpty, writeFailures>>

AppEnroll == \E d \in FaceDescriptors, l \in Labels : EnrollFace(Some(d), l, FALSE)
AppRemove == \E l \in Labels : RemoveFace(l, FALSE)
UploadEnroll == \E d \in FaceDescriptors, l \in Labels : UploadEnrollFace(d, l)
UploadRemove == \E l \in Labels : UploadRemoveFace(l)

\* The two recognizers of the page, each called in turn.
NextShared ==
    \/ (AppEnroll \/ AppRemove \/ ClearSaved) /\ UNCHANGED <<session, camera, frames, upload>>
    \/ (UploadEnroll \/ UploadRemove \/ UploadClearAllFaces)
           /\ UNCHANGED <<session, camera, frames>>

SpecShared == InitAll /\ [][NextShared]_vars

\* --------------------------------------------------------- session flows
\* What a user can type as a name, and String.prototype.trim on it.
NameTexts == {"", " ", "Alice", " Alice ", "7"}
Trim(text) ==
    CASE text = " " -> ""
      [] text = " Alice " -> "Alice"
      [] OTHER -> text

\* prompt(): null when cancelled, otherwise the text.
PromptAnswers == {None} \cup {Some(text) : text \in NameTexts}

\* UploadManager.selectedFaceIndex: set in the constructor, never assigned again.
selectedFaceIndex == 0

\* showError(message) and return: the recognizer is not called.
Report(f, message) ==
    /\ flow' = [f EXCEPT !.error = message]
    /\ UNCHANGED recognizer

\* An enrollFaceWithPrompt that never asks before it enrolls.
EnrollFaceWithPromptNeverAsks(f, faceDescriptor, answer, overwrite, setItemThrows) ==
    IF answer = None \/ Trim(answer[1]) = ""
    THEN Report(f, "Name is required for enrollment")
    ELSE /\ EnrollFace(Some(faceDescriptor), Trim(answer[1]), setItemThrows)
         /\ flow' = [f EXCEPT !.label = Trim(answer[1]), !.delegated = TRUE]

\* FaceRecognizer.enrollFaceWithPrompt(faceDescriptor) as app.js calls it:
\* what it throws is caught by the caller and shown with showError.
EnrollFaceWithPrompt(f, faceDescriptor, answer, overwrite, setItemThrows) ==
    IF answer = None \/ Trim(answer[1]) = ""
    THEN Report(f, "Name is required for enrollment")
    ELSE LET label == Trim(answer[1])
             exists == MapHas(enrolledFaces, label)
         IN IF exists /\ ~overwrite
            THEN Report([f EXCEPT !.label = label, !.asked = TRUE], "Enrollment cancelled")
            ELSE /\ EnrollFace(Some(faceDescriptor), label, setItemThrows)
                 /\ flow' = [f EXCEPT !.label = label, !.asked = exists,
                                 !.confirmed = exists, !.delegated = TRUE]

\* FacialRecognitionApp.enrollFace(): the live camera flow.
AppEnrollFace(detections, answer, overwrite, setItemThrows) ==
    LET f == [Idle EXCEPT !.name = "enrollFace", !.count = Len(detections)]
    IN IF Len(detections) = 0
       THEN Report(f, "No faces detected. Please ensure your face is visible.")
       ELSE IF Len(detections) > 1
       THEN Report(f, "Multiple faces detected. Please ensure only one face is visible.")
       ELSE LET detection == detections[1]
                g == [f EXCEPT !.detection = Some(detection)]
            IN IF detection.descriptor = None
               THEN Report(g, "Face descriptor not available. Please try again.")
               ELSE EnrollFaceWithPrompt(g, detection.descriptor[1], answer, overwrite,
                                         setItemThrows)

\* An enrollSelectedFace that hands the detection's descriptor to enrollFace
\* without looking at it; the error enrollFace throws is caught and shown.
EnrollSelectedFaceUnchecked(nameText, detections, overwrite, setItemThrows) ==
    LET faceName == Trim(nameText)
        f == [Idle EXCEPT !.name = "enrollSelectedFace", !.count = Len(detections),
                          !.label = faceName]
    IN IF faceName = ""
       THEN Report(f, "Please enter a name for this face")
       ELSE IF Len(detections) = 0
       THEN Report(f, "No face detected to enroll")
       ELSE LET detection == detections[selectedFaceIndex + 1]
                g == [f EXCEPT !.detection = Some(detection)]
            IN /\ EnrollFace(detection.descriptor, faceName, setItemThrows)
               /\ flow' = [g EXCEPT !.delegated = ~EnrollFaceRejects(detection.descriptor, faceName),
                                    !.error = IF EnrollFaceRejects(detection.descriptor, faceName)
                                              THEN "Face descriptor and label are required"
                                              ELSE ""]

\* UploadManager.enrollSelectedFace(): the upload flow.
EnrollSelectedFace(nameText, detections, overwrite, setItemThrows) ==
    LET faceName == Trim(nameText)
        f == [Idle EXCEPT !.name = "enrollSelectedFace", !.count = Len(detections),
                          !.label = faceName]
    IN IF faceName = ""
       THEN Report(f, "Please enter a name for this face")
       ELSE IF Len(detections) = 0
       THEN Report(f, "No face detected to enroll")
       ELSE LET detection == detections[selectedFaceIndex + 1]
                g == [f EXCEPT !.detection = Some(detection)]
                exists == MapHas(enrolledFaces, faceName)
            IN IF detection.descriptor = None
               THEN Report(g, "Face descriptor not available. Please try again.")
               ELSE IF exists /\ ~overwrite
               THEN /\ flow' = [g EXCEPT !.asked = TRUE]
                    /\ UNCHANGED recognizer
               ELSE /\ EnrollFace(detection.descriptor, faceName, setItemThrows)
                    /\ flow' = [g EXCEPT !.asked = exists, !.confirmed = exists,
                                    !.delegated = TRUE]

\* The flows read the number of detections and the first detection only:
\* the lists of one detection repeated stand for all lists.
SessionDetectionLists ==
    {ds \in DetectionLists : \A i \in 1..Len(ds) : ds[i] = ds[1]}

LiveEnrollment ==
    \E ds \in SessionDetectionLists, a \in PromptAnswers, o \in BOOLEAN :
        AppEnrollFace(ds, a, o, FALSE)
UploadEnrollment ==
    \E n \in NameTexts, ds \in SessionDetectionLists, o \in BOOLEAN :
        EnrollSelectedFace(n, ds, o, FALSE)

\* A call made on the recognizer outside the two flows.
Direct == flow' = Idle

\* The two flows and direct calls on one recognizer, with writes that succeed.
NextSession ==
    /\ \/ LiveEnrollment
       \/ UploadEnrollment
       \/ (EnrollSaved \/ ClearSaved) /\ Direct
    /\ UNCHANGED <<camera, frames, upload>>

SpecSession == InitAll /\ [][NextSession]_vars
\* ================================================================ claims
Mutations == {"enrollFace", "removeFace", "clearAllFaces"}
\* The position of a label the map has.
IndexOf(m, label) == CHOOSE i \in 1..Len(m) : m[i].label = label
\* The map as a set of (label, descriptor) pairs, order forgotten.
MapPairs(m) == {m[i] : i \in 1..Len(m)}
EnrolledLabels == {getEnrolledFaces[i] : i \in 1..Len(getEnrolledFaces)}

\* C1: after any sequence of enrollFace, removeFace and clearAllFaces calls
\* on a recognizer that started empty, getEnrolledFaces() lists exactly the
\* labels whose last operation was a successful enroll, each once, and
\* getEnrollmentCount() is the number of those labels.
C1_ListIsNetEnrolled ==
    startedEmpty =>
        /\ EnrolledLabels = netEnrolled
        /\ \A i, j \in 1..Len(getEnrolledFaces) :
               getEnrolledFaces[i] = getEnrolledFaces[j] => i = j
        /\ getEnrollmentCount = Cardinality(netEnrolled)

\* A label was enrolled twice and another one removed.
C1_Witness ==
    /\ startedEmpty
    /\ ret.op = "removeFace" /\ ret.value
    /\ Cardinality(netEnrolled) = 1
    /\ writeFailures = 0

\* C2 (as claimed): at the return of every enrollFace, removeFace and
\* clearAllFaces call the persisted item deserializes to exactly the
\* in-memory map (same labels, same descriptors).
C2_PersistedIsMemory ==
    ret.op \in Mutations =>
        MapPairs(LoadedFaces(localStorage)) = MapPairs(enrolledFaces)

\* C3: after the constructor and after every mutation the matcher holds
\* exactly the (label, descriptor) pairs of the store, in the store's order,
\* with the threshold 0.6, and it is null exactly when the store is empty.
C3_MatcherIsStore ==
    /\ (faceMatcher = None) <=> (Len(enrolledFaces) = 0)
    /\ faceMatcher # None =>
        /\ Len(faceMatcher[1].labeledDescriptors) = Len(enrolledFaces)
        /\ \A i \in 1..Len(enrolledFaces) :
               /\ faceMatcher[1].labeledDescriptors[i].label = enrolledFaces[i].label
               /\ faceMatcher[1].labeledDescriptors[i].descriptor
                      = enrolledFaces[i].descriptor
        /\ faceMatcher[1].distanceThreshold = MatcherThreshold

\* A removal left one face in a store whose matcher had to be rebuilt.
C3_Witness ==
    /\ ret.op = "removeFace" /\ ret.value
    /\ Len(enrolledFaces) = 1
    /\ faceMatcher # None

\* C9 (as claimed): enrollFace throws whenever the label is empty or the
\* descriptor is null, undefined or an empty sequence, and then leaves the
\* map, the matcher and the persisted item unchanged.
C9_InvalidEnrollThrows ==
    [][(/\ ret'.op = "enrollFace"
        /\ \/ ret'.label = ""
           \/ ret'.faceDescriptor = None
           \/ ret'.faceDescriptor = Some(<<>>))
       => /\ ret'.threw
          /\ UNCHANGED <<enrolledFaces, faceMatcher, localStorage>>]_vars
\* ---------------------------------------------- recognition, stated apart
\* The answers are stated from the store, not from the matcher.
UnknownResult == [label |-> "unknown", distance |-> UnknownDistance, isMatch |-> FALSE]
HasDescriptor(detection) == detection.descriptor # None
Query(detection) == detection.descriptor[1]
Distance(d, q) ==
    IF Len(d) = 0 \/ Len(q) = 0 THEN 0
    ELSE IF d[1] >= q[1] THEN d[1] - q[1] ELSE q[1] - d[1]
SameLengthIn(m, q) == \A i \in 1..Len(m) : Len(m[i].descriptor) = Len(q)
NearestIn(m, q) ==
    CHOOSE n \in {Distance(m[i].descriptor, q) : i \in 1..Len(m)} :
        \A i \in 1..Len(m) : n <= Distance(m[i].descriptor, q)
LabelsAtIn(m, q, n) ==
    {m[i].label : i \in {k \in 1..Len(m) : Distance(m[k].descriptor, q) = n}}
SameLength(q) == SameLengthIn(enrolledFaces, q)
Nearest(q) == NearestIn(enrolledFaces, q)
LabelsAt(q, n) == LabelsAtIn(enrolledFaces, q, n)
\* r answers detection: the sentinel without a descriptor; otherwise the
\* nearest distance, with a nearest label when it is below 0.6.
Answers(r, detection) ==
    IF ~HasDescriptor(detection)
    THEN r = UnknownResult
    ELSE /\ r.distance = Nearest(Query(detection))
         /\ r.isMatch = (r.label # "unknown")
         /\ IF Nearest(Query(detection)) < MatcherThreshold
            THEN r.label \in LabelsAt(Query(detection), r.distance)
            ELSE r.label = "unknown"
Recognized == ret.op = "recognizeFaces"
MismatchedQuery ==
    \E i \in 1..Len(ret.detections) :
        HasDescriptor(ret.detections[i]) /\ ~SameLength(Query(ret.detections[i]))

C7_MatchIffWithinCallerThreshold ==
    (Recognized /\ ~ret.threw /\ Len(enrolledFaces) > 0) =>
        \A i \in 1..Len(ret.detections) :
            HasDescriptor(ret.detections[i]) =>
                /\ ret.results[i].isMatch <=> ret.results[i].label # "unknown"
                /\ ret.results[i].isMatch
                       <=> Nearest(Query(ret.detections[i])) <= ret.threshold

\* C8: a detection matched with label L at the caller's threshold T is
\* matched with the same label L at every threshold T' > T.
C8_MonotonicInThreshold ==
    (Recognized /\ ~ret.threw) =>
        \A i \in 1..Len(ret.results) :
            ret.results[i].isMatch =>
                \A t \in {u \in Thresholds : u > ret.threshold} :
                    LET again == RecognizeFaces(faceMatcher, ret.detections, t)
                    IN /\ ~again.threw
                       /\ again.results[i].isMatch
                       /\ again.results[i].label = ret.results[i].label

\* A match at a distance above 0, at the lowest threshold of the slider.
C8_Witness ==
    /\ Recognized /\ ~ret.threw
    /\ \A u \in Thresholds : ret.threshold <= u
    /\ \E i \in 1..Len(ret.results) :
           ret.results[i].isMatch /\ ret.results[i].distance > 0
\* ------------------------------------------------------------ overwrite
\* A step that enrolls under a label that was enrolled already.
Overwrite == ret'.op = "enrollFace" /\ ~ret'.threw /\ ret'.existed
OldDescriptor == enrolledFaces[IndexOf(enrolledFaces, ret'.label)].descriptor
NewDescriptor == ret'.faceDescriptor[1]
\* recognizeFaces([{descriptor: q}], t) after the step
AnswerAfter(q, t) == RecognizeFaces(faceMatcher', <<[descriptor |-> Some(q)]>>, t)
\* C10 (as claimed, for stores of detector descriptors): enrolling under an
\* enrolled label keeps the count; afterwards a query equal to the new
\* descriptor matches the label, and a query equal to the old descriptor,
\* farther than the threshold from every enrolled descriptor, does not.
C10_OverwriteMatchesLabel ==
    [][(/\ Overwrite
        /\ \A i \in 1..Len(enrolledFaces') : enrolledFaces'[i].descriptor \in FaceDescriptors
        /\ OldDescriptor \in FaceDescriptors)
       => /\ Len(enrolledFaces') = Len(enrolledFaces)
          /\ \A t \in Thresholds :
                /\ ~AnswerAfter(NewDescriptor, t).threw
                /\ AnswerAfter(NewDescriptor, t).results[1].isMatch
                /\ AnswerAfter(NewDescriptor, t).results[1].label = ret'.label
                /\ NearestIn(enrolledFaces', OldDescriptor) > t =>
                       ~(/\ AnswerAfter(OldDescriptor, t).results[1].isMatch
                         /\ AnswerAfter(OldDescriptor, t).results[1].label = ret'.label)
      ]_vars

\* C10 (amended): enrolling under an enrolled label replaces that label's
\* descriptor in the map and in the matcher, keeps every other entry, the
\* order and the count.  Afterwards a query equal to the new descriptor is
\* answered with distance 0 and the label of an entry that holds exactly
\* that descriptor (the label itself when no other entry holds the same
\* descriptor: the matcher's reduce keeps the later of two equal
\* distances); a query equal to the old descriptor that is 0.6 or
\* more from every enrolled descriptor is answered 'unknown', whatever
\* threshold the caller passes.  A query whose length differs from an
\* enrolled descriptor's makes recognizeFaces throw.
C10_OverwriteReplaces ==
    [][Overwrite
       => /\ Len(enrolledFaces') = Len(enrolledFaces)
          /\ \A i \in 1..Len(enrolledFaces) :
                /\ enrolledFaces'[i].label = enrolledFaces[i].label
                /\ enrolledFaces'[i].descriptor =
                       IF enrolledFaces[i].label = ret'.label
                       THEN NewDescriptor
                       ELSE enrolledFaces[i].descriptor
                /\ faceMatcher'[1].labeledDescriptors[i].descriptor
                       = enrolledFaces'[i].descriptor
          /\ \A t \in Thresholds :
                /\ IF SameLengthIn(enrolledFaces', NewDescriptor)
                   THEN /\ ~AnswerAfter(NewDescriptor, t).threw
                        /\ AnswerAfter(NewDescriptor, t).results[1].distance = 0
                        /\ AnswerAfter(NewDescriptor, t).results[1].isMatch
                        /\ AnswerAfter(NewDescriptor, t).results[1].label
                               \in LabelsAtIn(enrolledFaces', NewDescriptor, 0)
                        /\ LabelsAtIn(enrolledFaces', NewDescriptor, 0) = {ret'.label}
                               => AnswerAfter(NewDescriptor, t).results[1].label = ret'.label
                   ELSE AnswerAfter(NewDescriptor, t).threw
                /\ IF SameLengthIn(enrolledFaces', OldDescriptor)
                   THEN NearestIn(enrolledFaces', OldDescriptor) >= MatcherThreshold =>
                            AnswerAfter(OldDescriptor, t).results[1] =
                                [label |-> "unknown",
                                 distance |-> NearestIn(enrolledFaces', OldDescriptor),
                                 isMatch |-> FALSE]
                   ELSE AnswerAfter(OldDescriptor, t).threw
      ]_vars

\* A label of a store of two was enrolled again, with a descriptor 0.6 or
\* more from the one the other label holds.
C10_Witness ==
    /\ ret.op = "enrollFace" /\ ~ret.threw /\ ret.existed
    /\ Len(enrolledFaces) = 2
    /\ SameLength(ret.faceDescriptor[1])
    /\ \A i \in 1..2 :
           enrolledFaces[i].label # ret.label =>
               Distance(enrolledFaces[i].descriptor, ret.faceDescriptor[1]) >= MatcherThreshold
\* ------------------------------------------------------- remove and clear
\* C11: removeFace(label) returns true exactly when the label was enrolled
\* before the call; for an absent label it returns false, calls neither
\* updateFaceMatcher nor localStorage.setItem, and leaves the map, the
\* matcher and the persisted item as they were.
C11_RemoveAbsentIsNoOp ==
    [][ret'.op = "removeFace"
       => /\ ret'.value <=> MapHas(enrolledFaces, ret'.label)
          /\ ~MapHas(enrolledFaces, ret'.label) =>
                /\ ~ret'.wrote /\ ~ret'.rebuilt
                /\ UNCHANGED <<enrolledFaces, faceMatcher, localStorage>>
          /\ MapHas(enrolledFaces, ret'.label) =>
                /\ ~MapHas(enrolledFaces', ret'.label)
                /\ \A i \in 1..Len(enrolledFaces) :
                       enrolledFaces[i].label # ret'.label
                           => enrolledFaces[i] \in MapPairs(enrolledFaces')
      ]_vars

\* removeFace of a label that is not enrolled, on a store that holds a face.
C11_Witness ==
    /\ ret.op = "removeFace" /\ ~ret.value /\ ret.label \in Labels
    /\ Len(enrolledFaces) = 1
    /\ localStorage # None

\* C12 (as claimed): after clearAllFaces() returns, from any prior state,
\* the map is empty, the matcher is null and the persisted item is the empty
\* mapping, so that a recognizer constructed afterwards loads no face.
C12_ClearEmptiesEverything ==
    ret.op = "clearAllFaces" =>
        /\ enrolledFaces = <<>>
        /\ faceMatcher = None
        /\ localStorage = SaveEnrolledFaces(<<>>, FALSE)
        /\ LoadedFaces(localStorage) = <<>>
\* ------------------------------------------------------- malformed items
Malformed(item) == item # None /\ item[1].kind # "object"

\* C13 (as claimed): for every persisted value that is unreadable or
\* malformed, constructing a FaceRecognizer completes and leaves the map
\* empty and the matcher null.
C13_MalformedLoadsEmpty ==
    [][Construct /\ Malformed(localStorage)
           => enrolledFaces' = <<>> /\ faceMatcher' = None]_vars

\* What holds instead: the map is reset for text that does not parse and
\* for the text null, and is empty for a number.
C13_UnreadableLoadsEmpty ==
    [][Construct /\ localStorage # None
                 /\ localStorage[1].kind \in {"unparseable", "null", "number"}
           => enrolledFaces' = <<>> /\ faceMatcher' = None]_vars
\* -------------------------------------------------------------- round trip
\* A recognizer is constructed right after a call that ran saveEnrolledFaces.
LoadAfterSave == Construct /\ ret.op \in Mutations /\ ret.wrote

\* C14 (as claimed): for every store state reachable by enroll, remove and
\* clear, saveEnrolledFaces() followed by the construction of a fresh
\* recognizer yields the same label set, the same descriptor for every
\* label, and a matcher built from those pairs.
C14_RoundTrip ==
    [][LoadAfterSave
           => /\ MapPairs(enrolledFaces') = MapPairs(enrolledFaces)
              /\ Len(enrolledFaces') = Len(enrolledFaces)
              /\ faceMatcher' = UpdateFaceMatcher(enrolledFaces')]_vars

\* The round trip of a save whose setItem did write.
C14_RoundTripWhenWritten ==
    [][LoadAfterSave /\ localStorage = SaveEnrolledFaces(enrolledFaces, FALSE)
           => /\ MapPairs(enrolledFaces') = MapPairs(enrolledFaces)
              /\ Len(enrolledFaces') = Len(enrolledFaces)
              /\ faceMatcher' = UpdateFaceMatcher(enrolledFaces')]_vars
\* -------------------------------------------------------- enrollment flows
FlowRan == flow'.name # "none"
Took(f) == f.detection # None
AbsentDescriptor(f) == Took(f) /\ f.detection[1].descriptor = None
PresentDescriptor(f) == Took(f) /\ f.detection[1].descriptor # None

\* C15: a flow that takes a detection without a descriptor reports an error,
\* does not call enrollFace and leaves the map, the matcher and the
\* persisted item unchanged, in the live camera flow and in the upload flow.
\* A flow that calls enrollFace passes the descriptor of the detection it
\* took, together with the trimmed name; and it does call enrollFace when the
\* descriptor is present and its other checks pass (a name was given, the
\* live flow saw exactly one face, an overwrite was not declined).
C15_AbsentDescriptorFails ==
    [][FlowRan
       => /\ AbsentDescriptor(flow') =>
                /\ flow'.error # ""
                /\ ~flow'.delegated
                /\ UNCHANGED recognizer
          /\ flow'.delegated =>
                /\ PresentDescriptor(flow')
                /\ ret' = [Call("enrollFace") EXCEPT
                              !.label = flow'.label,
                              !.faceDescriptor = flow'.detection[1].descriptor,
                              !.value = TRUE,
                              !.existed = MapHas(enrolledFaces, flow'.label),
                              !.rebuilt = TRUE, !.wrote = TRUE]
                /\ [label |-> flow'.label,
                    descriptor |-> flow'.detection[1].descriptor[1]]
                       \in MapPairs(enrolledFaces')
          /\ ( /\ PresentDescriptor(flow')
               /\ flow'.label # ""
               /\ MapHas(enrolledFaces, flow'.label) => flow'.confirmed )
                => flow'.delegated
      ]_vars

\* The upload flow has taken a detection without a descriptor while a face
\* is enrolled.
C15_Witness ==
    /\ flow.name = "enrollSelectedFace"
    /\ AbsentDescriptor(flow)
    /\ flow.label \in Labels
    /\ flow.error # ""
    /\ Len(enrolledFaces) > 0

\* The descriptor stored under some label differs between the two states.
Replaced ==
    \E i \in 1..Len(enrolledFaces) :
        /\ MapHas(enrolledFaces', enrolledFaces[i].label)
        /\ enrolledFaces'[IndexOf(enrolledFaces', enrolledFaces[i].label)].descriptor
               # enrolledFaces[i].descriptor

\* C16 (as claimed): in every enrollment path that reaches the store, a
\* direct enrollFace call included, the descriptor of an enrolled label
\* changes only after an explicit overwrite confirmation; when it is
\* declined, the map, the matcher and the persisted item are unchanged.
C16_NeverReplacedSilently ==
    [][/\ Replaced => flow'.asked /\ flow'.confirmed
       /\ (flow'.asked /\ ~flow'.confirmed) => UNCHANGED recognizer]_vars

\* C16 (amended): the two flows ask before they replace, and a declined
\* overwrite changes nothing; enrollFace itself, called directly, replaces
\* the descriptor of an enrolled label and asks nothing.
C16_FlowsAskBeforeReplacing ==
    [][/\ FlowRan =>
            /\ Replaced => flow'.asked /\ flow'.confirmed
            /\ (flow'.delegated /\ MapHas(enrolledFaces, flow'.label))
                   => flow'.asked /\ flow'.confirmed
            /\ flow'.asked => MapHas(enrolledFaces, flow'.label)
            /\ ( /\ PresentDescriptor(flow')
                 /\ flow'.label # ""
                 /\ MapHas(enrolledFaces, flow'.label) ) => flow'.asked
            /\ (flow'.asked /\ ~flow'.confirmed)
                   => ~flow'.delegated /\ UNCHANGED recognizer
       /\ (~FlowRan /\ ret'.op = "enrollFace" /\ ~ret'.threw) =>
            /\ ~flow'.asked
            /\ [label |-> ret'.label, descriptor |-> ret'.faceDescriptor[1]]
                   \in MapPairs(enrolledFaces')
      ]_vars

\* The live flow has replaced an enrolled label's descriptor after confirm().
C16_Witness ==
    /\ flow.name = "enrollFace"
    /\ flow.asked /\ flow.confirmed /\ flow.delegated
    /\ ret.op = "enrollFace" /\ ret.existed
    /\ Len(enrolledFaces) = 2
\* ------------------------------------------------------- camera streams
\* C17 (as claimed): under every interleaving of startCamera, stopCamera and
\* switchCamera, every stream ever handed out is the one CameraManager.stream
\* refers to or has had its tracks stopped.
C17_OneLiveStream == liveStreams \subseteq {stream}
\* The device after current among the first n devices, going round; the
\* first device when current is not one of them.
Successor(n, current) ==
    IF \E k \in 1..n : Devices[k] = current
    THEN Devices[((CHOOSE k \in 1..n : Devices[k] = current) % n) + 1]
    ELSE Devices[1]

SwitchChose ==
    /\ camRet'.op = "switchCamera"
    /\ \/ camRet'.event = "getUserMedia"
       \/ camRet'.error = "No additional cameras available"

\* The last n consecutive switches, when each of them saw n devices.
LastSwitches(n) ==
    IF Len(switched) >= n /\ \A k \in (Len(switched) - n + 1)..Len(switched) : switched[k].n = n
    THEN {switched[k].deviceId : k \in (Len(switched) - n + 1)..Len(switched)}
    ELSE {}

\* C18: with n > 1 devices switchCamera asks for the device that follows
\* currentDeviceId in the listing, going round, and for the first device
\* when currentDeviceId is not listed; n consecutive successful switches
\* over n devices start every device once.  With n <= 1 it throws 'No
\* additional cameras available' and leaves stream, isActive and
\* currentDeviceId unchanged.
C18_SwitchGoesRound ==
    /\ [][SwitchChose
            => IF camRet'.n <= 1
               THEN /\ camRet'.event = "threw"
                    /\ camRet'.error = "No additional cameras available"
                    /\ UNCHANGED <<stream, isActive, currentDeviceId, liveStreams>>
                    /\ Len(calls') = Len(calls) - 1
               ELSE /\ camRet'.deviceId = Successor(camRet'.n, currentDeviceId)
                    /\ \E i \in 1..Len(calls) :
                          /\ calls[i].pc = "enumerateDevices"
                          /\ calls'[i] = [op |-> "switchCamera", pc |-> "getUserMedia",
                                          deviceId |-> camRet'.deviceId,
                                          n |-> camRet'.n]
          ]_vars
    /\ [][(camRet'.op = "switchCamera" /\ camRet'.event = "returned")
            => currentDeviceId' = camRet'.deviceId /\ isActive' /\ stream' # NoStream]_vars
    /\ [](\A n \in 2..MaxDevices :
              Len(switched) >= n /\ LastSwitches(n) # {}
                  => LastSwitches(n) = {Devices[k] : k \in 1..n})

\* MaxDevices consecutive switches have succeeded over MaxDevices devices.
C18_Witness ==
    /\ Len(switched) = MaxDevices
    /\ \A k \in 1..Len(switched) : switched[k].n = MaxDevices
    /\ camRet.op = "switchCamera" /\ camRet.event = "returned"
\* ------------------------------------------------------------ frame chains
\* The processFrame invocations that are executing (waiting for detectFaces)
\* or scheduled through requestAnimationFrame.
Chains == detecting + Cardinality(scheduled)

\* C19 (as claimed): at most one frame-processing chain is active at any
\* time: there is never more than one processFrame invocation executing or
\* scheduled.
C19_OneChain == Chains <= 1

\* C20 (as claimed): once stopCamera has completed and until the next
\* startCamera, no frame is scheduled, no processFrame writes its results
\* and the overlay stays cleared.
C20_QuietAfterStop ==
    stopped => scheduled = {} /\ ~wroteSinceStop /\ overlay = "clear"
\* ------------------------------------------------------- pause while hidden
\* C21 (as claimed): while the document is hidden, after pauseProcessing
\* has paused a running frame loop, no processFrame is scheduled or started
\* until the document becomes visible again.
C21_NothingNewWhileHidden ==
    [][hidden /\ hidden' /\ isProcessing
          => scheduled' \subseteq scheduled /\ detecting' <= detecting]_vars
\* --------------------------------------------------------- two recognizers
PersistedLabels ==
    {LoadedFaces(localStorage)[i].label : i \in 1..Len(LoadedFaces(localStorage))}

\* C22 (as claimed): with the two recognizers saving under one key, the
\* persisted value holds every label whose last operation in either
\* instance was an enroll.
C22_NoEnrollmentLost == netEnrolled \subseteq PersistedLabels
====
